---- MODULE Spec2Model ----
(***************************************************************************)
(* A model of strings.rs: the rope front end shared by both rope variants  *)
(* (src/src/ropes/macros.rs: impl_rope!, generate_ropeslice_struct!) and   *)
(* the chunked StringBuffer (src/src/string_buffer.rs).                    *)
(*                                                                         *)
(* The node algebra behind the rope (Node::insert, Node::remove,           *)
(* Node::replace, Node::find_slice, RopeChars) lives in rope.rs and        *)
(* src_rope.rs, which are not among the source files; those definitions    *)
(* follow the design document and are marked as such where they are        *)
(* defined.                                                                *)
(***************************************************************************)
EXTENDS Integers, Sequences, FiniteSets, TLC

VARIABLES
    debug,      \* build flag: debug assertions and overflow checks compiled in
    root,       \* Rope.root
    len,        \* Rope.len
    op,         \* the last rope call: its arguments, the rope before it, its outcome
    it,         \* a RopeSlice being iterated (nodes, start, len, cur_byte, cur_node)
    ipc,        \* "idle" | "iter" | "done" | "fault": where the byte iteration is
    out,        \* the bytes next() has returned so far
    rng,        \* the byte range [s, e) the iterated slice was taken for
    buf,        \* a StringBuffer: its chain of nodes, the node `last` points to, len
    cpy,        \* a second StringBuffer, made by buf.clone()
    bop,        \* the last StringBuffer call: its arguments, both buffers before it
    pushed,     \* the code points pushed so far onto the container being read
    calls,      \* the number of StringBuffer calls made so far
    ch          \* a character iterator (Chars or RopeChars) being read

ropevars == <<debug, root, len, op, it, ipc, out, rng>>
bufvars == <<buf, cpy, bop, pushed, calls, ch>>
vars == <<debug, root, len, op, it, ipc, out, rng, buf, cpy, bop, pushed, calls, ch>>

(***************************************************************************)
(* Bounds of the model.                                                    *)
(***************************************************************************)
\* ropes hold at most this many bytes
MaxLen == 3
\* stands for 2^(usize::BITS), the modulus of wrapping usize arithmetic; every
\* length of the model is far below it
UsizeModulus == 1073741824

(***************************************************************************)
(* Sequences.                                                              *)
(***************************************************************************)
Min(a, b) == IF a <= b THEN a ELSE b
Max(a, b) == IF a >= b THEN a ELSE b

RECURSIVE SumSeq(_)
SumSeq(s) == IF s = <<>> THEN 0 ELSE Head(s) + SumSeq(Tail(s))

RECURSIVE Flatten(_)
Flatten(ss) == IF ss = <<>> THEN <<>> ELSE Head(ss) \o Flatten(Tail(ss))

\* s with the elements at positions from+1 .. to removed
Excise(s, from, to) == SubSeq(s, 1, from) \o SubSeq(s, to + 1, Len(s))

(***************************************************************************)
(* Nodes (design document, section 3: Leaf(chunk) or Internal{children,    *)
(* len}).  Every node is a record of the same shape.                       *)
(***************************************************************************)
Leaf(t) == [kind |-> "leaf", text |-> t, children |-> <<>>, len |-> Len(t)]
Inner(cs, n) == [kind |-> "inner", text |-> <<>>, children |-> cs, len |-> n]

\* Node::empty_inner()
empty_inner == Inner(<<>>, 0)

\* the largest chunk a leaf grows to in place before an insert splits it
MaxChunk == 2

\* the sum of the leaf byte lengths below n, recomputed from the leaves
RECURSIVE SubtreeLen(_)
SubtreeLen(n) ==
    IF n.kind = "leaf" THEN Len(n.text)
    ELSE SumSeq([i \in 1..Len(n.children) |-> SubtreeLen(n.children[i])])

\* the materialized text below n
RECURSIVE TextOf(_)
TextOf(n) ==
    IF n.kind = "leaf" THEN n.text
    ELSE Flatten([i \in 1..Len(n.children) |-> TextOf(n.children[i])])

\* the leaves below n, in document order
RECURSIVE Leaves(_)
Leaves(n) ==
    IF n.kind = "leaf" THEN <<n>>
    ELSE Flatten([i \in 1..Len(n.children) |-> Leaves(n.children[i])])

\* every Internal node's cached len is the sum of its leaves
RECURSIVE WellFormed(_)
WellFormed(n) ==
    /\ n.len = SubtreeLen(n)
    /\ \A i \in 1..Len(n.children) : WellFormed(n.children[i])

\* the byte offset at which child i of an Internal node starts
ChildOffset(cs, i) == SumSeq([j \in 1..(i - 1) |-> cs[j].len])

(***************************************************************************)
(* NodeAction (design document, section 4.1).  A result carries the node   *)
(* as the call left it in place (self), the replacement of a Change (new)  *)
(* and the length delta (adj).                                             *)
(***************************************************************************)
ActNone(n) == [action |-> "None", self |-> n, new |-> n, adj |-> 0]
ActRemove(n) == [action |-> "Remove", self |-> n, new |-> n, adj |-> 0 - n.len]
ActAdjust(n, d) == [action |-> "Adjust", self |-> n, new |-> n, adj |-> d]
ActChange(n, m, d) == [action |-> "Change", self |-> n, new |-> m, adj |-> d]
ActPanic(n) == [action |-> "Panic", self |-> n, new |-> n, adj |-> 0]

\* what stands in the parent's child slot after a child's action
After(r) == IF r.action = "Change" THEN r.new ELSE r.self

\* an Internal node holds at most this many children
Fanout == 2

\* Node::insert: an Internal node with a free slot takes text that lands on its edge
\* as a new leaf; otherwise the text goes down to the child that holds the offset, and
\* a leaf that would grow past MaxChunk splits into two leaves at the insertion point
RECURSIVE node_insert(_, _, _)
node_insert(n, off, t) ==
    IF n.kind = "leaf" THEN
        LET pre == SubSeq(n.text, 1, off)
            suf == SubSeq(n.text, off + 1, Len(n.text))
            whole == pre \o t \o suf
            two == IF off = 0 THEN <<Leaf(t), Leaf(n.text)>>
                   ELSE IF off = Len(n.text) THEN <<Leaf(n.text), Leaf(t)>>
                   ELSE <<Leaf(pre \o t), Leaf(suf)>>
        IN  IF Len(whole) <= MaxChunk
            THEN ActAdjust(Leaf(whole), Len(t))
            ELSE ActChange(n, Inner(two, Len(whole)), Len(t))
    ELSE IF Len(n.children) < Fanout /\ off = n.len THEN
        ActAdjust(Inner(Append(n.children, Leaf(t)), n.len + Len(t)), Len(t))
    ELSE IF Len(n.children) < Fanout /\ off = 0 THEN
        ActAdjust(Inner(<<Leaf(t)>> \o n.children, n.len + Len(t)), Len(t))
    ELSE
        LET cs == n.children
            i == CHOOSE k \in 1..Len(cs) :
                    /\ off <= ChildOffset(cs, k) + cs[k].len
                    /\ \A j \in 1..(k - 1) : off > ChildOffset(cs, j) + cs[j].len
            r == node_insert(cs[i], off - ChildOffset(cs, i), t)
        IN  ActAdjust(Inner([cs EXCEPT ![i] = After(r)], n.len + r.adj), r.adj)

\* Node::remove of the bytes [s, e) of n, 0 <= s < e
RECURSIVE node_remove(_, _, _)
node_remove(n, s, e) ==
    IF s >= n.len THEN ActNone(n)
    ELSE IF n.kind = "leaf" THEN
        IF s = 0 /\ e >= n.len THEN ActRemove(n)
        ELSE LET e2 == Min(e, n.len)
             IN  ActAdjust(Leaf(Excise(n.text, s, e2)), 0 - (e2 - s))
    ELSE
        LET cs == n.children
            rs == [i \in 1..Len(cs) |->
                      LET o == ChildOffset(cs, i)
                      IN  IF e <= o \/ s >= o + cs[i].len
                          THEN ActNone(cs[i])
                          ELSE node_remove(cs[i], Max(s - o, 0), Min(e - o, cs[i].len))]
            kept == Flatten([i \in 1..Len(cs) |->
                      IF rs[i].action = "Remove" THEN <<>> ELSE <<After(rs[i])>>])
            delta == SumSeq([i \in 1..Len(cs) |-> rs[i].adj])
        IN  IF kept = <<>> THEN ActRemove(n)
            ELSE IF Len(kept) = 1 /\ Len(cs) > 1
            THEN ActChange(n, kept[1], delta)
            ELSE ActAdjust(Inner(kept, n.len + delta), delta)

\* Node::replace: the bytes [start, start + Len(str)) of n overwritten in place
RECURSIVE node_replace(_, _, _)
node_replace(n, start, str) ==
    IF n.kind = "leaf" THEN
        Leaf([i \in 1..Len(n.text) |->
                IF i > start /\ i <= start + Len(str) THEN str[i - start]
                ELSE n.text[i]])
    ELSE
        LET cs == n.children
        IN  Inner([i \in 1..Len(cs) |->
                     LET o == ChildOffset(cs, i)
                         from == Max(start, o)
                         to == Min(start + Len(str), o + cs[i].len)
                     IN  IF from >= to THEN cs[i]
                         ELSE node_replace(cs[i], from - o,
                                           SubSeq(str, from - start + 1, to - start))],
                  n.len)

(***************************************************************************)
(* char::len_utf8 and char::to_string: the UTF-8 encoding of a code point. *)
(***************************************************************************)
len_utf8(c) ==
    IF c < 128 THEN 1 ELSE IF c < 2048 THEN 2 ELSE IF c < 65536 THEN 3 ELSE 4

encode_utf8(c) ==
    IF c < 128 THEN <<c>>
    ELSE IF c < 2048 THEN <<192 + (c \div 64), 128 + (c % 64)>>
    ELSE IF c < 65536 THEN
        <<224 + (c \div 4096), 128 + ((c \div 64) % 64), 128 + (c % 64)>>
    ELSE <<240 + (c \div 262144), 128 + ((c \div 4096) % 64),
           128 + ((c \div 64) % 64), 128 + (c % 64)>>

RECURSIVE encode_str(_)
encode_str(cs) ==
    IF cs = <<>> THEN <<>>
    ELSE IF Len(cs) = 1 THEN encode_utf8(cs[1])
    ELSE encode_str(SubSeq(cs, 1, Len(cs) \div 2))
            \o encode_str(SubSeq(cs, Len(cs) \div 2 + 1, Len(cs)))

(***************************************************************************)
(* RopeSlice (macros.rs, generate_ropeslice_struct!).                      *)
(***************************************************************************)
RopeSlice(nodes, start, slen, cur_byte, cur_node) ==
    [nodes |-> nodes, start |-> start, len |-> slen,
     cur_byte |-> cur_byte, cur_node |-> cur_node]

\* RopeSlice::empty()
RopeSlice_empty == RopeSlice(<<>>, 0, 0, 0, 0)

\* Node::find_slice: the leaves that intersect [start, end), the offset of start in
\* the first of them and the length of the slice's text in the last of them
find_slice(n, start, end, slice) ==
    LET ls == Leaves(n)
        off(i) == SumSeq([j \in 1..(i - 1) |-> ls[j].len])
        hit == {i \in 1..Len(ls) : off(i) < end /\ off(i) + ls[i].len > start}
    IN  IF hit = {} THEN slice
        ELSE LET lo == CHOOSE i \in hit : \A j \in hit : i <= j
                 hi == CHOOSE i \in hit : \A j \in hit : i >= j
             IN  [slice EXCEPT !.nodes = SubSeq(ls, lo, hi),
                               !.start = start - off(lo),
                               !.len = end - off(hi)]

\* the outcome of one call of next(): the slice as the call left it and what it
\* returned, Some(byte) or None, or that it panicked
Yield(slice, kind, byte) == [slice |-> slice, kind |-> kind, byte |-> byte]

\* <RopeSlice as Iterator>::next.  len - self.start is usize arithmetic: below zero
\* it panics when overflow checks are compiled in (dbg) and wraps otherwise
RECURSIVE rs_next(_, _)
rs_next(dbg, self) ==
    IF self.cur_node >= Len(self.nodes) THEN Yield(self, "None", 0)
    ELSE
        LET node == self.nodes[self.cur_node + 1]
            nlen == node.len
            s1 == IF self.cur_node = 0 /\ self.cur_byte = 0 /\ self.start > 0
                  THEN [self EXCEPT !.cur_byte = @ + self.start]
                  ELSE self
            in_last == s1.cur_node = Len(s1.nodes) - 1 /\ s1.start > 0
            end_pos == (nlen - s1.start) % UsizeModulus
            next_byte == s1.cur_byte + 1
        IN  IF in_last /\ nlen < s1.start /\ dbg THEN Yield(s1, "Panic", 0)
            ELSE IF in_last /\ next_byte > end_pos THEN Yield(s1, "None", 0)
            ELSE IF s1.cur_byte >= nlen
            THEN rs_next(dbg, [s1 EXCEPT !.cur_byte = 0, !.cur_node = @ + 1])
            ELSE Yield([s1 EXCEPT !.cur_byte = @ + 1], "Some", node.text[s1.cur_byte + 1])

\* what one call of RopeSlice::next computes on its way, in either build: whether the
\* end position of the last leaf, len - self.start, comes out below zero, and the index
\* it reads through the leaf's text pointer with the length of that leaf (-1: no read)
RopeRead(below_zero, index, leaf_len) ==
    [below_zero |-> below_zero, index |-> index, leaf_len |-> leaf_len]

RECURSIVE rs_reads(_)
rs_reads(self) ==
    IF self.cur_node >= Len(self.nodes) THEN RopeRead(FALSE, -1, 0)
    ELSE LET node == self.nodes[self.cur_node + 1]
             nlen == node.len
             s1 == IF self.cur_node = 0 /\ self.cur_byte = 0 /\ self.start > 0
                   THEN [self EXCEPT !.cur_byte = @ + self.start] ELSE self
             in_last == s1.cur_node = Len(s1.nodes) - 1 /\ s1.start > 0
             end_pos == (nlen - s1.start) % UsizeModulus
             next_byte == s1.cur_byte + 1
             rest == IF in_last /\ next_byte > end_pos THEN RopeRead(FALSE, -1, 0)
                     ELSE IF s1.cur_byte >= nlen
                     THEN rs_reads([s1 EXCEPT !.cur_byte = 0, !.cur_node = @ + 1])
                     ELSE RopeRead(FALSE, s1.cur_byte, nlen)
         IN  IF in_last /\ nlen < s1.start
             THEN [rest EXCEPT !.below_zero = TRUE]
             ELSE rest

(***************************************************************************)
(* Rope (macros.rs, impl_rope!).  An operation maps the rope (r, l) to     *)
(* [root, len, result, descended, slice]: result is "ok" when the call     *)
(* returns and "panic" when it aborts.                                     *)
(***************************************************************************)
Ret(r, l, result, descended, slice) ==
    [root |-> r, len |-> l, result |-> result, descended |-> descended, slice |-> slice]

\* Rope::insert: the offset is validated, then the root's action is folded
rope_insert(r, l, start, text) ==
    IF start > l THEN Ret(r, l, "panic", FALSE, RopeSlice_empty)
    ELSE LET a == node_insert(r, start, text)
         IN  Ret(After(a), l + Len(text), "ok", TRUE, RopeSlice_empty)

\* Rope::push
push(r, l, text) == rope_insert(r, l, l, text)

\* the closure Rope::remove hands to remove_inner: the range is validated against
\* the rope's length before the root is touched
do_remove(r, l, start, end) ==
    IF end > l THEN ActPanic(r) ELSE node_remove(r, start, end)

\* remove_inner with the Adjust arm dropping its delta
remove_inner_stale_len(r, l, start, end) ==
    IF ~(end >= start) THEN Ret(r, l, "panic", FALSE, RopeSlice_empty)
    ELSE IF start = end THEN Ret(r, l, "ok", FALSE, RopeSlice_empty)
    ELSE LET a == do_remove(r, l, start, end)
         IN  CASE a.action = "None" -> Ret(a.self, l, "ok", TRUE, RopeSlice_empty)
               [] a.action = "Remove" -> Ret(empty_inner, 0, "ok", TRUE, RopeSlice_empty)
               [] a.action = "Adjust" -> Ret(a.self, l, "ok", TRUE, RopeSlice_empty)
               [] a.action = "Change" ->
                    Ret(a.new, (l + a.adj) % UsizeModulus, "ok", TRUE, RopeSlice_empty)
               [] a.action = "Panic" -> Ret(r, l, "panic", TRUE, RopeSlice_empty)

\* remove_inner with the Change arm adjusting len but keeping the old root
remove_inner_keep_root(r, l, start, end) ==
    IF ~(end >= start) THEN Ret(r, l, "panic", FALSE, RopeSlice_empty)
    ELSE IF start = end THEN Ret(r, l, "ok", FALSE, RopeSlice_empty)
    ELSE LET a == do_remove(r, l, start, end)
         IN  CASE a.action = "None" -> Ret(a.self, l, "ok", TRUE, RopeSlice_empty)
               [] a.action = "Remove" -> Ret(empty_inner, 0, "ok", TRUE, RopeSlice_empty)
               [] a.action = "Adjust" ->
                    Ret(a.self, (l + a.adj) % UsizeModulus, "ok", TRUE, RopeSlice_empty)
               [] a.action = "Change" ->
                    Ret(a.self, (l + a.adj) % UsizeModulus, "ok", TRUE, RopeSlice_empty)
               [] a.action = "Panic" -> Ret(r, l, "panic", TRUE, RopeSlice_empty)

\* remove_inner without the early return for an empty range
remove_inner_no_shortcut(r, l, start, end) ==
    IF ~(end >= start) THEN Ret(r, l, "panic", FALSE, RopeSlice_empty)
    ELSE LET a == do_remove(r, l, start, end)
         IN  CASE a.action = "None" -> Ret(a.self, l, "ok", TRUE, RopeSlice_empty)
               [] a.action = "Remove" -> Ret(empty_inner, 0, "ok", TRUE, RopeSlice_empty)
               [] a.action = "Adjust" ->
                    Ret(a.self, (l + a.adj) % UsizeModulus, "ok", TRUE, RopeSlice_empty)
               [] a.action = "Change" ->
                    Ret(a.new, (l + a.adj) % UsizeModulus, "ok", TRUE, RopeSlice_empty)
               [] a.action = "Panic" -> Ret(r, l, "panic", TRUE, RopeSlice_empty)

\* Rope::remove_inner
remove_inner(r, l, start, end) ==
    IF ~(end >= start) THEN Ret(r, l, "panic", FALSE, RopeSlice_empty)
    ELSE IF start = end THEN Ret(r, l, "ok", FALSE, RopeSlice_empty)
    ELSE LET a == do_remove(r, l, start, end)
         IN  CASE a.action = "None" -> Ret(a.self, l, "ok", TRUE, RopeSlice_empty)
               [] a.action = "Remove" -> Ret(empty_inner, 0, "ok", TRUE, RopeSlice_empty)
               [] a.action = "Adjust" ->
                    Ret(a.self, (l + a.adj) % UsizeModulus, "ok", TRUE, RopeSlice_empty)
               [] a.action = "Change" ->
                    Ret(a.new, (l + a.adj) % UsizeModulus, "ok", TRUE, RopeSlice_empty)
               [] a.action = "Panic" -> Ret(r, l, "panic", TRUE, RopeSlice_empty)

\* Rope::remove
rope_remove(r, l, start, end) == remove_inner(r, l, start, end)

\* Rope::replace_str
replace_str(r, l, start, new_str) ==
    IF ~(start + Len(new_str) <= l) THEN Ret(r, l, "panic", FALSE, RopeSlice_empty)
    ELSE Ret(node_replace(r, start, new_str), l, "ok", TRUE, RopeSlice_empty)

\* Rope::replace
replace(r, l, start, new_char) ==
    IF ~(start + len_utf8(new_char) <= l) THEN Ret(r, l, "panic", FALSE, RopeSlice_empty)
    ELSE replace_str(r, l, start, encode_utf8(new_char))

\* Rope::slice; debug_assert! is compiled in only when dbg
slice(dbg, r, l, start, end) ==
    IF start = end THEN Ret(r, l, "ok", FALSE, RopeSlice_empty)
    ELSE IF dbg /\ ~(end > start /\ start <= l /\ end <= l)
    THEN Ret(r, l, "panic", FALSE, RopeSlice_empty)
    ELSE Ret(r, l, "ok", TRUE, find_slice(r, start, end, RopeSlice_empty))

\* Rope::full_slice
full_slice(dbg, r, l) == slice(dbg, r, l, 0, l)

(***************************************************************************)
(* StringBuffer (src/src/string_buffer.rs): a chain of StringNodes, each a *)
(* String (its bytes and its capacity).  The chain first, first.next, ...  *)
(* is a sequence of nodes; the raw pointer `last` is the position of the   *)
(* node it points to.                                                      *)
(***************************************************************************)
MAX_CAPACITY == 65535
INIT_CAPACITY == 255

StringNode(data, cap) == [data |-> data, cap |-> cap]

\* StringNode::with_capacity
StringNode_with_capacity(capacity) == StringNode(<<>>, capacity)

StringBuffer(nodes, last, l) == [nodes |-> nodes, last |-> last, len |-> l]

\* StringBuffer::with_capacity
with_capacity(capacity) ==
    StringBuffer(<<StringNode_with_capacity(capacity)>>, 1, 0)

\* str::is_char_boundary, which String::truncate asserts
is_char_boundary(data, index) ==
    IF index = 0 \/ index >= Len(data) THEN index <= Len(data)
    ELSE ~(data[index + 1] \in 128..191)

\* StringNode::push_str with the node allocated when the text does not fit linked in
\* but the text never pushed into it
RECURSIVE StringNode_push_str_unfilled(_, _, _)
StringNode_push_str_unfilled(nodes, i, text) ==
    IF i < Len(nodes) THEN StringNode_push_str_unfilled(nodes, i + 1, text)
    ELSE IF nodes[i].cap - Len(nodes[i].data) >= Len(text)
    THEN [nodes |-> [nodes EXCEPT ![i].data = @ \o text], last |-> i]
    ELSE LET shrunk == Len(nodes[i].data)
             doubled == Min(Max(shrunk, INIT_CAPACITY) * 2, MAX_CAPACITY)
             next_cap == Max(doubled, Len(text))
         IN  [nodes |-> Append([nodes EXCEPT ![i].cap = shrunk],
                               StringNode_with_capacity(next_cap)),
              last |-> i + 1]

\* StringNode::push_str on the node at position i of the chain; the new chain and
\* the position of the node returned
RECURSIVE StringNode_push_str(_, _, _)
StringNode_push_str(nodes, i, text) ==
    IF i < Len(nodes) THEN StringNode_push_str(nodes, i + 1, text)
    ELSE IF nodes[i].cap - Len(nodes[i].data) >= Len(text)
    THEN [nodes |-> [nodes EXCEPT ![i].data = @ \o text], last |-> i]
    ELSE LET shrunk == Len(nodes[i].data)
             doubled == Min(Max(shrunk, INIT_CAPACITY) * 2, MAX_CAPACITY)
             next_cap == Max(doubled, Len(text))
             linked == Append([nodes EXCEPT ![i].cap = shrunk],
                              StringNode_with_capacity(next_cap))
         IN  StringNode_push_str(linked, i + 1, text)

\* StringBuffer::push_str
StringBuffer_push_str(self, text) ==
    LET r == StringNode_push_str(self.nodes, self.last, text)
    IN  StringBuffer(r.nodes, r.last, self.len + Len(text))

\* StringNode::truncate on the node at position i; "panic" when String::truncate
\* is asked for a cut inside a code point or when there is no next node to unwrap
RECURSIVE StringNode_truncate(_, _, _)
StringNode_truncate(nodes, i, new_len) ==
    LET node_len == Len(nodes[i].data)
    IN  IF node_len >= new_len
        THEN IF ~is_char_boundary(nodes[i].data, new_len)
             THEN [result |-> "panic", nodes |-> nodes, last |-> i]
             ELSE [result |-> "ok",
                   nodes |-> Append(SubSeq(nodes, 1, i - 1),
                                    [nodes[i] EXCEPT !.data = SubSeq(@, 1, new_len)]),
                   last |-> i]
        ELSE IF i >= Len(nodes)
        THEN [result |-> "panic", nodes |-> nodes, last |-> i]
        ELSE StringNode_truncate(nodes, i + 1, new_len - node_len)

\* StringBuffer::truncate: the outcome and the buffer after it
StringBuffer_truncate(self, new_len) ==
    IF new_len >= self.len THEN [result |-> "ok", buf |-> self]
    ELSE LET last == self.nodes[self.last].data
             last_len == Len(last)
         IN  IF last_len > self.len - new_len
             THEN IF ~is_char_boundary(last, last_len - (self.len - new_len))
                  THEN [result |-> "panic", buf |-> self]
                  ELSE [result |-> "ok",
                        buf |-> [self EXCEPT
                            !.nodes[self.last].data =
                                SubSeq(@, 1, last_len - (self.len - new_len)),
                            !.len = new_len]]
             ELSE LET t == StringNode_truncate(self.nodes, 1, new_len)
                  IN  IF t.result = "panic" THEN [result |-> "panic", buf |-> self]
                      ELSE [result |-> "ok",
                            buf |-> StringBuffer(t.nodes, t.last, new_len)]

\* StringNode::flat_clone: the data in a String of its own, linked to nothing
flat_clone(node) == StringNode(node.data, Len(node.data))

\* the while loop of clone: last_orig walks the original's chain and each node it
\* finds is linked behind `last`, which is assigned once, before the loop
RECURSIVE clone_loop(_, _, _, _)
clone_loop(nodes, last, orig, last_orig) ==
    IF last_orig >= Len(orig) THEN nodes
    ELSE clone_loop(Append(SubSeq(nodes, 1, last), flat_clone(orig[last_orig + 1])),
                    last, orig, last_orig + 1)

\* <StringBuffer as Clone>::clone
StringBuffer_clone(self) ==
    StringBuffer(clone_loop(<<flat_clone(self.nodes[1])>>, 1, self.nodes, 1), 1, self.len)

\* <StringBuffer as FromStr>::from_str
from_str(text) ==
    StringBuffer_push_str(with_capacity(Max(INIT_CAPACITY, Len(text))), text)

\* <StringBuffer as Display>::fmt: the data of the nodes in chain order
to_string(self) == Flatten([i \in 1..Len(self.nodes) |-> self.nodes[i].data])

(***************************************************************************)
(* Character iteration: Chars over the chain of a StringBuffer             *)
(* (string_buffer.rs) and RopeChars over the full slice of a rope.         *)
(***************************************************************************)
\* util::utf8_char_width (util.rs is not among the source files): the UTF-8 width
\* table, the byte width of the code point a leading byte starts, 0 for a byte that
\* starts none
utf8_char_width(b) ==
    IF b < 128 THEN 1
    ELSE IF b \in 194..223 THEN 2
    ELSE IF b \in 224..239 THEN 3
    ELSE IF b \in 240..244 THEN 4
    ELSE 0

IsContinuation(b) == b \in 128..191

\* std::str::from_utf8(bytes).ok() and chars().nth(0) for the bytes of one code point
\* of width 2 to 4: the code point, or -1 when the bytes are not well-formed UTF-8
from_utf8(bytes) ==
    IF Len(bytes) = 2
    THEN IF IsContinuation(bytes[2])
         THEN (bytes[1] % 32) * 64 + (bytes[2] % 64)
         ELSE -1
    ELSE IF Len(bytes) = 3
    THEN IF /\ IsContinuation(bytes[2]) /\ IsContinuation(bytes[3])
            /\ (bytes[1] = 224 => bytes[2] >= 160)
            /\ (bytes[1] = 237 => bytes[2] < 160)
         THEN (bytes[1] % 16) * 4096 + (bytes[2] % 64) * 64 + (bytes[3] % 64)
         ELSE -1
    ELSE IF /\ IsContinuation(bytes[2]) /\ IsContinuation(bytes[3])
            /\ IsContinuation(bytes[4])
            /\ (bytes[1] = 240 => bytes[2] >= 144)
            /\ (bytes[1] = 244 => bytes[2] < 144)
         THEN (bytes[1] % 8) * 262144 + (bytes[2] % 64) * 4096
              + (bytes[3] % 64) * 64 + (bytes[4] % 64)
         ELSE -1

Chars(cur_node, cur_byte, abs_byte) ==
    [cur_node |-> cur_node, cur_byte |-> cur_byte, abs_byte |-> abs_byte]

\* Chars::new(&self.first)
Chars_new == Chars(1, 0, 0)

\* the outcome of a call on a character iterator
CharItem(kind, char, byte, self) ==
    [kind |-> kind, char |-> char, byte |-> byte, self |-> self]

\* Chars::read_byte; indexing past the end of the node's data panics
read_byte(nodes, self) ==
    LET data == nodes[self.cur_node].data
    IN  IF self.cur_byte >= Len(data) THEN CharItem("Panic", 0, 0, self)
        ELSE CharItem("Some", 0, data[self.cur_byte + 1],
                      [self EXCEPT !.cur_byte = @ + 1, !.abs_byte = @ + 1])

\* the while loop of read_char: fills buf[start .. width)
RECURSIVE read_buf(_, _, _, _)
read_buf(nodes, self, bytes, width) ==
    IF Len(bytes) >= width THEN [kind |-> "Some", bytes |-> bytes, self |-> self]
    ELSE LET r == read_byte(nodes, self)
         IN  IF r.kind = "Panic" THEN [kind |-> "Panic", bytes |-> bytes, self |-> self]
             ELSE read_buf(nodes, r.self, Append(bytes, r.byte), width)

\* Chars::read_char
read_char(nodes, self) ==
    LET first == read_byte(nodes, self)
        width == utf8_char_width(first.byte)
    IN  IF first.kind = "Panic" THEN first
        ELSE IF width = 1 THEN CharItem("Some", first.byte, 0, first.self)
        ELSE IF width = 0 THEN CharItem("Panic", 0, 0, first.self)
        ELSE LET b == read_buf(nodes, first.self, <<first.byte>>, width)
             IN  IF b.kind = "Panic" THEN CharItem("Panic", 0, 0, b.self)
                 ELSE IF from_utf8(b.bytes) < 0 THEN CharItem("Panic", 0, 0, b.self)
                 ELSE CharItem("Some", from_utf8(b.bytes), 0, b.self)

\* <Chars as Iterator>::next with the offset taken after the character has been read
RECURSIVE Chars_next_late_offset(_, _)
Chars_next_late_offset(nodes, self) ==
    IF self.cur_byte >= Len(nodes[self.cur_node].data)
    THEN IF self.cur_node < Len(nodes)
         THEN Chars_next_late_offset(nodes,
                                     [self EXCEPT !.cur_byte = 0, !.cur_node = @ + 1])
         ELSE CharItem("None", 0, 0, self)
    ELSE LET result == read_char(nodes, self)
         IN  [result EXCEPT !.byte = result.self.abs_byte]

\* <Chars as Iterator>::next
RECURSIVE Chars_next(_, _)
Chars_next(nodes, self) ==
    IF self.cur_byte >= Len(nodes[self.cur_node].data)
    THEN IF self.cur_node < Len(nodes)
         THEN Chars_next(nodes, [self EXCEPT !.cur_byte = 0, !.cur_node = @ + 1])
         ELSE CharItem("None", 0, 0, self)
    ELSE LET byte == self.abs_byte
             result == read_char(nodes, self)
         IN  [result EXCEPT !.byte = byte]

RopeChars(data, cur_node, cur_byte, abs_byte) ==
    [data |-> data, cur_node |-> cur_node, cur_byte |-> cur_byte,
     abs_byte |-> abs_byte]

\* Rope::chars
chars(dbg, r, l) == RopeChars(full_slice(dbg, r, l).slice, 0, 0, 0)

\* RopeChars reading `width` bytes off the byte sequence of its slice (rope.rs is
\* not among the source files; after the design document, section 5)
RECURSIVE rope_read_buf(_, _, _, _)
rope_read_buf(dbg, data, bytes, width) ==
    IF Len(bytes) >= width THEN [kind |-> "Some", bytes |-> bytes, data |-> data]
    ELSE LET r == rs_next(dbg, data)
         IN  IF r.kind # "Some" THEN [kind |-> "Panic", bytes |-> bytes, data |-> r.slice]
             ELSE rope_read_buf(dbg, r.slice, Append(bytes, r.byte), width)

\* <RopeChars as Iterator>::next (after the design document, section 5)
RopeChars_next(dbg, self) ==
    LET first == rs_next(dbg, self.data)
        width == utf8_char_width(first.byte)
        b == rope_read_buf(dbg, first.slice, <<first.byte>>, width)
        after == [self EXCEPT !.data = b.data, !.abs_byte = @ + width]
    IN  IF first.kind # "Some" THEN CharItem(first.kind, 0, 0, self)
        ELSE IF width = 0 \/ b.kind = "Panic" THEN CharItem("Panic", 0, 0, self)
        ELSE IF width = 1 THEN CharItem("Some", first.byte, self.abs_byte, after)
        ELSE IF from_utf8(b.bytes) < 0 THEN CharItem("Panic", 0, 0, self)
        ELSE CharItem("Some", from_utf8(b.bytes), self.abs_byte, after)

\* no StringBuffer
NoBuffer == StringBuffer(<<>>, 0, 0)

BufCall(name, on, text, new_len, result) ==
    [name |-> name, on |-> on, text |-> text, new_len |-> new_len,
     pre_buf |-> buf, pre_cpy |-> cpy, result |-> result]

NoBufCall ==
    [name |-> "new", on |-> "buf", text |-> <<>>, new_len |-> 0,
     pre_buf |-> NoBuffer, pre_cpy |-> NoBuffer, result |-> "ok"]

\* the buffer variables while the rope is under test: StringBuffer::new(), no clone
BufIdle ==
    /\ buf = with_capacity(INIT_CAPACITY)
    /\ cpy = NoBuffer
    /\ bop = NoBufCall
    /\ pushed = <<>>
    /\ calls = 0
    /\ ch = Chars_new

(***************************************************************************)
(* The rope under its mutating operations and slice.                       *)
(***************************************************************************)
\* the texts and characters the operations are called with: "a" and "e-acute" are
\* inserted, "b" and "e-acute" overwrite
RopeTexts == {<<97>>, <<195, 169>>}
RopeChars_ == {98, 233}
\* the offsets the operations are called with: every valid one and one past them
Offsets == 0..(len + 1)

\* the caller's obligation on offsets: o does not fall inside a code point of t
\* (offsets past the end are the length checks' business)
IsBoundary(t, o) == IF o >= Len(t) THEN TRUE ELSE ~(t[o + 1] \in 128..191)
\* the caller's obligation on replace: the span [o, o + w) is one code point of t
IsCharAt(txt, at, w) ==
    /\ at + w <= Len(txt)
    /\ IsBoundary(txt, at)
    /\ IsBoundary(txt, at + w)
    /\ (txt[at + 1] >= 192) = (w > 1)
\* the offsets a caller that keeps its obligation passes
Boundaries == {o \in Offsets : IsBoundary(TextOf(root), o)}

Call(name, start, end, text, ret) ==
    [name |-> name, start |-> start, end |-> end, text |-> text,
     pre_root |-> root, pre_len |-> len,
     result |-> ret.result, descended |-> ret.descended, slice |-> ret.slice]

NoCall ==
    [name |-> "new", start |-> 0, end |-> 0, text |-> <<>>,
     pre_root |-> empty_inner, pre_len |-> 0,
     result |-> "ok", descended |-> FALSE, slice |-> RopeSlice_empty]

IterIdle == /\ it = RopeSlice_empty /\ ipc = "idle" /\ out = <<>> /\ rng = <<0, 0>>

\* Rope::new(), in either build
InitRope ==
    /\ debug \in BOOLEAN
    /\ root = empty_inner
    /\ len = 0
    /\ op = NoCall
    /\ IterIdle
    /\ BufIdle

Apply(name, start, end, text, ret) ==
    LET r == ret
    IN  /\ root' = r.root
        /\ len' = r.len
        /\ op' = Call(name, start, end, text, r)
        /\ UNCHANGED <<debug, it, ipc, out, rng>>
        /\ UNCHANGED bufvars

Insert ==
    \E start \in Boundaries, text \in RopeTexts :
        /\ len + Len(text) <= MaxLen
        /\ Apply("insert", start, start, text, rope_insert(root, len, start, text))

Push ==
    \E text \in RopeTexts :
        /\ len + Len(text) <= MaxLen
        /\ Apply("push", len, len, text, push(root, len, text))

Remove ==
    \E start \in Boundaries, end \in Boundaries :
        /\ Apply("remove", start, end, <<>>, rope_remove(root, len, start, end))

Replace ==
    \E start \in Offsets, c \in RopeChars_ :
        /\ start + len_utf8(c) <= len => IsCharAt(TextOf(root), start, len_utf8(c))
        /\ Apply("replace", start, start, encode_utf8(c), replace(root, len, start, c))

ReplaceStr ==
    \E start \in Offsets, c \in RopeChars_ :
        /\ start + len_utf8(c) <= len => IsCharAt(TextOf(root), start, len_utf8(c))
        /\ Apply("replace_str", start, start, encode_str(<<c>>),
                 replace_str(root, len, start, encode_str(<<c>>)))

Slice ==
    \E start \in Boundaries, end \in Boundaries :
        /\ Apply("slice", start, end, <<>>, slice(debug, root, len, start, end))

NextRope == Slice \/ Insert \/ Push \/ Remove \/ Replace \/ ReplaceStr

SpecRope == InitRope /\ [][NextRope]_vars

\* the rope's text
Text == TextOf(root)

(***************************************************************************)
(* Byte iteration over slices of a rope.  The rope is built by inserts; a  *)
(* slice borrows it, so it is not mutated until the slice is dropped.      *)
(***************************************************************************)
\* ropes whose slices are iterated hold at most this many bytes
MaxIterLen == 4
IterTexts == {<<97>>, <<195, 169>>, <<98, 99, 100>>}

IterBuild ==
    /\ ipc = "idle"
    /\ \E start \in 0..len, text \in IterTexts :
        /\ len + Len(text) <= MaxIterLen
        /\ LET r == rope_insert(root, len, start, text)
           IN  root' = r.root /\ len' = r.len
    /\ UNCHANGED <<debug, op, it, ipc, out, rng>>
    /\ UNCHANGED bufvars

IterSlice ==
    /\ ipc = "idle"
    /\ \E start \in 0..len, end \in 0..len :
        /\ start <= end
        /\ LET r == slice(debug, root, len, start, end)
           IN  /\ r.result = "ok"
               /\ it' = r.slice
        /\ rng' = <<start, end>>
    /\ ipc' = "iter"
    /\ out' = <<>>
    /\ UNCHANGED <<debug, root, len, op>>
    /\ UNCHANGED bufvars

IterNext ==
    /\ ipc \in {"iter", "done"}
    /\ LET r == rs_next(debug, it)
       IN  /\ it' = r.slice
           /\ out' = IF r.kind = "Some" THEN Append(out, r.byte) ELSE out
           /\ ipc' = CASE r.kind = "Some" -> "iter"
                       [] r.kind = "None" -> "done"
                       [] r.kind = "Panic" -> "fault"
    /\ UNCHANGED <<debug, root, len, op, rng>>
    /\ UNCHANGED bufvars

IterDrop ==
    /\ ipc \in {"done", "fault"}
    /\ it' = RopeSlice_empty /\ ipc' = "idle" /\ out' = <<>> /\ rng' = <<0, 0>>
    /\ UNCHANGED <<debug, root, len, op>>
    /\ UNCHANGED bufvars

NextIter == IterBuild \/ IterSlice \/ IterNext \/ IterDrop

SpecIter == InitRope /\ [][NextIter]_vars

\* the bytes of the range the iterated slice was taken for
RangeBytes == SubSeq(TextOf(root), rng[1] + 1, rng[2])
\* the bytes the leaves the slice refers to hold in total
HeldBytes == SumSeq([i \in 1..Len(it.nodes) |-> it.nodes[i].len])

(***************************************************************************)
(* A StringBuffer under push_str alone (SpecPush), and the character       *)
(* iterators over a StringBuffer and over a rope (SpecChars).              *)
(***************************************************************************)
\* at most this many texts are pushed onto a buffer
MaxPushes == 3
\* ropes whose characters are iterated hold at most this many code points
MaxRopeChars == 3
\* the capacities a StringBuffer is created with
Caps == {0, 1, 2, INIT_CAPACITY}
\* the texts pushed, as code points: "a", e-acute, the euro sign, "ab", and a run of
\* "x" as long as the smallest capacity a second node is given
BigText == [i \in 1..(2 * INIT_CAPACITY) |-> 120]
PushTexts == {<<97>>, <<233>>, <<8364>>, <<97, 98>>, BigText}
RopeCharTexts == {<<97>>, <<233>>, <<8364>>}

RopeIdle ==
    /\ root = empty_inner
    /\ len = 0
    /\ op = NoCall
    /\ IterIdle

\* StringBuffer::with_capacity(c) or text.parse::<StringBuffer>(), in either build
InitBuf ==
    /\ debug \in BOOLEAN
    /\ RopeIdle
    /\ cpy = NoBuffer
    /\ bop = NoBufCall
    /\ calls = 0
    /\ ch = Chars_new
    /\ \/ /\ pushed = <<>>
          /\ \E c \in Caps : buf = with_capacity(c)
       \/ /\ pushed \in PushTexts
          /\ buf = from_str(encode_str(pushed))

PushStr ==
    /\ calls < MaxPushes
    /\ \E text \in PushTexts :
        /\ buf' = StringBuffer_push_str(buf, encode_str(text))
        /\ bop' = BufCall("push_str", "buf", encode_str(text), 0, "ok")
        /\ pushed' = pushed \o text
    /\ calls' = calls + 1
    /\ UNCHANGED <<cpy, ch>>
    /\ UNCHANGED ropevars

NextPush == PushStr

SpecPush == InitBuf /\ [][NextPush]_vars

\* at most this many texts are pushed onto a buffer whose characters are iterated
MaxCharPushes == 2
CharCaps == {0, 1}
CharTexts == {<<97>>, <<233>>, <<8364>>, BigText}

\* a buffer made by with_capacity or parsed from a text, and the empty rope
InitChars ==
    /\ debug \in BOOLEAN
    /\ RopeIdle
    /\ cpy = NoBuffer
    /\ bop = NoBufCall
    /\ calls = 0
    /\ ch = Chars_new
    /\ \/ /\ pushed = <<>>
          /\ \E c \in CharCaps : buf = with_capacity(c)
       \/ /\ pushed \in RopeCharTexts
          /\ buf = from_str(encode_str(pushed))

CharsPushStr ==
    /\ ipc = "idle"
    /\ len = 0
    /\ calls < MaxCharPushes
    /\ \E text \in CharTexts :
        /\ buf' = StringBuffer_push_str(buf, encode_str(text))
        /\ bop' = BufCall("push_str", "buf", encode_str(text), 0, "ok")
        /\ pushed' = pushed \o text
    /\ calls' = calls + 1
    /\ UNCHANGED <<cpy, ch>>
    /\ UNCHANGED ropevars

\* the rope grows by a text inserted between two of its characters
RopeCharsInsert ==
    /\ ipc = "idle"
    /\ calls = 0
    /\ buf.len = 0
    /\ \E k \in 0..Len(pushed), text \in RopeCharTexts :
        /\ Len(pushed) + Len(text) <= MaxRopeChars
        /\ LET r == rope_insert(root, len, Len(encode_str(SubSeq(pushed, 1, k))),
                                encode_str(text))
           IN  r.result = "ok" /\ root' = r.root /\ len' = r.len
        /\ pushed' = SubSeq(pushed, 1, k) \o text \o SubSeq(pushed, k + 1, Len(pushed))
    /\ UNCHANGED <<debug, op, it, ipc, out, rng, buf, cpy, bop, calls, ch>>

CharsStart ==
    /\ ipc = "idle"
    /\ len = 0
    /\ ch' = Chars_new
    /\ ipc' = "chars"
    /\ UNCHANGED <<debug, root, len, op, it, out, rng, buf, cpy, bop, pushed, calls>>

RopeCharsStart ==
    /\ ipc = "idle"
    /\ len > 0
    /\ ch' = chars(debug, root, len)
    /\ ipc' = "rope_chars"
    /\ UNCHANGED <<debug, root, len, op, it, out, rng, buf, cpy, bop, pushed, calls>>

Emit(r) ==
    /\ ch' = r.self
    /\ out' = IF r.kind = "Some" THEN Append(out, <<r.char, r.byte>>) ELSE out
    /\ ipc' = CASE r.kind = "Some" -> ipc
                [] r.kind = "None" -> "done"
                [] r.kind = "Panic" -> "fault"
    /\ UNCHANGED <<debug, root, len, op, it, rng, buf, cpy, bop, pushed, calls>>

CharsNext ==
    /\ ipc = "chars"
    /\ Emit(Chars_next(buf.nodes, ch))

RopeCharsNext ==
    /\ ipc = "rope_chars"
    /\ Emit(RopeChars_next(debug, ch))

CharsDrop ==
    /\ ipc \in {"done", "fault"}
    /\ ch' = Chars_new /\ ipc' = "idle" /\ out' = <<>>
    /\ UNCHANGED <<debug, root, len, op, it, rng, buf, cpy, bop, pushed, calls>>

NextChars ==
    CharsPushStr \/ RopeCharsInsert \/ CharsStart \/ RopeCharsStart \/ CharsNext
        \/ RopeCharsNext \/ CharsDrop

SpecChars == InitChars /\ [][NextChars]_vars

(***************************************************************************)
(* Two StringBuffers under push_str, truncate and clone (SpecBuf).         *)
(***************************************************************************)
\* at most this many calls are made on the two buffers
MaxCalls == 4
BufTexts == {<<97>>, <<98, 99>>, <<195, 169>>, encode_str(BigText)}
\* the lengths truncate is called with
NewLens(b) == {n \in {0, 1, 2, b.len - 2, b.len - 1, b.len, b.len + 1} : n >= 0}

InitTwo ==
    /\ debug \in BOOLEAN
    /\ RopeIdle
    /\ \E c \in Caps : buf = with_capacity(c)
    /\ cpy = NoBuffer
    /\ bop = NoBufCall
    /\ pushed = <<>>
    /\ calls = 0
    /\ ch = Chars_new

BufPushStr ==
    /\ calls < MaxCalls
    /\ \E text \in BufTexts :
        \/ /\ buf' = StringBuffer_push_str(buf, text)
           /\ bop' = BufCall("push_str", "buf", text, 0, "ok")
           /\ UNCHANGED cpy
        \/ /\ cpy # NoBuffer
           /\ cpy' = StringBuffer_push_str(cpy, text)
           /\ bop' = BufCall("push_str", "cpy", text, 0, "ok")
           /\ UNCHANGED buf
    /\ calls' = calls + 1
    /\ UNCHANGED <<pushed, ch>>
    /\ UNCHANGED ropevars

BufTruncate ==
    /\ calls < MaxCalls
    /\ \/ \E new_len \in NewLens(buf) :
            LET r == StringBuffer_truncate(buf, new_len)
            IN  /\ buf' = r.buf
                /\ bop' = BufCall("truncate", "buf", <<>>, new_len, r.result)
                /\ UNCHANGED cpy
       \/ /\ cpy # NoBuffer
          /\ \E new_len \in NewLens(cpy) :
            LET r == StringBuffer_truncate(cpy, new_len)
            IN  /\ cpy' = r.buf
                /\ bop' = BufCall("truncate", "cpy", <<>>, new_len, r.result)
                /\ UNCHANGED buf
    /\ calls' = calls + 1
    /\ UNCHANGED <<pushed, ch>>
    /\ UNCHANGED ropevars

BufClone ==
    /\ calls < MaxCalls
    /\ cpy' = StringBuffer_clone(buf)
    /\ bop' = BufCall("clone", "buf", <<>>, 0, "ok")
    /\ calls' = calls + 1
    /\ UNCHANGED <<buf, pushed, ch>>
    /\ UNCHANGED ropevars

NextBuf == BufPushStr \/ BufTruncate \/ BufClone

SpecBuf == InitTwo /\ [][NextBuf]_vars

(***************************************************************************)
(* The claims about the rope's operations (SpecRope).                      *)
(***************************************************************************)
\* the range [op.start, op.end) of the last call lies within the rope it was called on
ValidRange == op.start <= op.end /\ op.end <= op.pre_len
\* the NodeAction the root reported to the last remove
RootAction == do_remove(op.pre_root, op.pre_len, op.start, op.end).action

\* C2: after every insert, push, remove, replace and replace_str that returns, the
\* rope's cached len is the length of its root's subtree, the sum of the leaf byte
\* lengths, whichever NodeAction the remove folded
C2_LenIsRootLen ==
    /\ len = root.len
    /\ len = SubtreeLen(root)
    /\ len = Len(TextOf(root))

\* a remove whose root reported Change has been folded into a non-empty rope
C2_Witness ==
    /\ op.name = "remove" /\ op.result = "ok"
    /\ RootAction = "Change"
    /\ len > 0 /\ len < op.pre_len

\* C3: remove(s, e) with 0 <= s <= e <= len returns with the text of the rope being
\* the text before it without the bytes [s, e) and len() smaller by e - s; removing
\* [0, len) leaves the empty rope
C3_RemoveExcises ==
    (op.name = "remove" /\ ValidRange) =>
        /\ op.result = "ok"
        /\ TextOf(root) = Excise(TextOf(op.pre_root), op.start, op.end)
        /\ len = op.pre_len - (op.end - op.start)
        /\ (op.start = 0 /\ op.end = op.pre_len) => (len = 0 /\ TextOf(root) = <<>>)

\* a remove has cut bytes out of the middle of the text
C3_Witness ==
    /\ op.name = "remove" /\ op.result = "ok"
    /\ 0 < op.start /\ op.start < op.end /\ op.end < op.pre_len
    /\ Len(TextOf(root)) = op.pre_len - (op.end - op.start)

\* the last call broke its operation's precondition on offsets
BrokePrecondition ==
    \/ op.name = "remove" /\ ~ValidRange
    \/ op.name = "slice" /\ (op.start > op.pre_len \/ op.end > op.pre_len)
    \/ op.name \in {"replace", "replace_str"} /\ op.start + Len(op.text) > op.pre_len

\* C4: a call that breaks its precondition (remove with end < start, remove or slice
\* with an offset beyond len, replace and replace_str with start + length > len)
\* aborts with root and len as they were; it never returns
C4_ViolationsAbort ==
    BrokePrecondition =>
        /\ op.result = "panic"
        /\ root = op.pre_root
        /\ len = op.pre_len

\* C5: for 0 <= x <= len, remove(x, x) returns with root and len as they were and
\* without descending into the tree, and slice(x, x) returns the empty slice (no
\* leaves, start 0, len 0), on which next() returns None at once
C5_EmptyRangeNoOp ==
    /\ (op.name = "remove" /\ op.start = op.end /\ op.end <= op.pre_len) =>
            /\ op.result = "ok"
            /\ ~op.descended
            /\ root = op.pre_root
            /\ len = op.pre_len
    /\ (op.name = "slice" /\ op.start = op.end /\ op.end <= op.pre_len) =>
            /\ op.result = "ok"
            /\ op.slice.nodes = <<>> /\ op.slice.start = 0 /\ op.slice.len = 0
            /\ rs_next(debug, op.slice).kind = "None"
            /\ root = op.pre_root
            /\ len = op.pre_len

\* remove(x, x) has returned for an x strictly inside a rope of several leaves
C5_Witness ==
    /\ op.name = "remove" /\ op.result = "ok"
    /\ op.start = op.end /\ 0 < op.start /\ op.start < op.pre_len
    /\ Len(Leaves(root)) > 1

(***************************************************************************)
(* The claims about byte iteration (SpecIter).                             *)
(***************************************************************************)
\* C1: iterating the slice of [start, end), start < end, yields exactly the bytes of
\* [start, end) in document order and then None
C1_SliceYieldsRange ==
    (ipc \in {"done", "fault"} /\ rng[1] < rng[2]) =>
        (ipc = "done" /\ out = RangeBytes)

\* the cursor (cur_node, cur_byte), compared in iteration order
CursorLeq(a, b) ==
    a.cur_node < b.cur_node \/ (a.cur_node = b.cur_node /\ a.cur_byte <= b.cur_byte)

\* C10: every call of next() moves the cursor forward or leaves it, strictly forward
\* when it returns a byte, has returned at most as many bytes as the slice's leaves
\* hold, and returns (it does not panic), so None is returned after finitely many calls
C10_IterationEnds ==
    [][(ipc \in {"iter", "done"} /\ ipc' # "idle") =>
            /\ ipc' # "fault"
            /\ CursorLeq(it, it')
            /\ (ipc' = "iter" => it' # it)
            /\ Len(out') <= HeldBytes']_vars

(***************************************************************************)
(* The claims about the StringBuffer (SpecBuf, SpecPush).                  *)
(***************************************************************************)
\* C6: clone returns a buffer whose text and len are those of the original, however
\* many nodes the original has, and a later push_str or truncate on one of the two
\* leaves the other as it was
C6_CloneIsEqualCopy ==
    /\ bop.name = "clone" =>
            /\ to_string(cpy) = to_string(buf)
            /\ cpy.len = buf.len
    /\ (bop.name \in {"push_str", "truncate"} /\ bop.on = "buf") => cpy = bop.pre_cpy
    /\ (bop.name \in {"push_str", "truncate"} /\ bop.on = "cpy") => buf = bop.pre_buf

\* C7: after any sequence of push_str calls on a buffer created with any capacity,
\* the data of the nodes in chain order is the concatenation of the pushed texts in
\* call order and len is the number of bytes pushed
C7_PushStrConcatenates ==
    /\ to_string(buf) = encode_str(pushed)
    /\ buf.len = Len(encode_str(pushed))

\* a push_str has put its text into the third or a later node, which had room for it
C7_Witness ==
    /\ bop.name = "push_str"
    /\ Len(buf.nodes) >= 3
    /\ Len(buf.nodes) = Len(bop.pre_buf.nodes)
    /\ buf.len = bop.pre_buf.len + Len(bop.text)

\* the buffer the last call was made on, before and after the call
Before == IF bop.on = "buf" THEN bop.pre_buf ELSE bop.pre_cpy
Now == IF bop.on = "buf" THEN buf ELSE cpy
\* the offset in the text of b at which the data of its i-th node starts
NodeStart(b, i) == SumSeq([j \in 1..(i - 1) |-> Len(b.nodes[j].data)])

\* C8: truncate(new_len) with new_len >= len leaves the buffer as it was; otherwise
\* it returns with the text being the first new_len bytes of the text before, len
\* being new_len, and no node after the first left that starts at or after new_len
C8_TruncateKeepsPrefix ==
    bop.name = "truncate" =>
        IF bop.new_len >= Before.len
        THEN bop.result = "ok" /\ Now = Before
        ELSE /\ bop.result = "ok"
             /\ to_string(Now) = SubSeq(to_string(Before), 1, bop.new_len)
             /\ Now.len = bop.new_len
             /\ \A i \in 2..Len(Now.nodes) : NodeStart(Before, i) < bop.new_len

(***************************************************************************)
(* The claim about character iteration (SpecChars).                        *)
(***************************************************************************)
\* C9: the characters yielded so far are the first code points pushed, in order, each
\* with the byte offset of its first byte: 0 for the first and for each other one the
\* offset of the one before plus its UTF-8 width; when next() returns None every code
\* point has been yielded; next() does not panic
C9_CharsYieldCodePoints ==
    /\ ipc # "fault"
    /\ Len(out) <= Len(pushed)
    /\ \A i \in 1..Len(out) :
        /\ out[i][1] = pushed[i]
        /\ out[i][2] = IF i = 1 THEN 0 ELSE out[i - 1][2] + len_utf8(out[i - 1][1])
    /\ ipc = "done" => Len(out) = Len(pushed)

\* the characters of a buffer of two or more nodes have all been read, the first node
\* holding text and a later node a character of several bytes
C9_Witness ==
    /\ ipc = "done" /\ len = 0
    /\ Len(buf.nodes) >= 2
    /\ buf.nodes[1].data # <<>>
    /\ \E i \in 2..Len(out) : out[i][1] > 127 /\ out[i][2] >= Len(buf.nodes[1].data)

(***************************************************************************)
(* The claim about the safety of byte iteration (SpecIter).                *)
(***************************************************************************)
\* C11: no call of next() on a slice taken for a range within the rope panics; the
\* byte a call reads through the leaf's text pointer is at an index below the length
\* of the current leaf; and the end position it computes for the last leaf, leaf
\* length minus the slice's start offset, is never below zero
C11_NextNeverFaults ==
    /\ ipc # "fault"
    /\ ipc = "iter" =>
            /\ ~rs_reads(it).below_zero
            /\ rs_reads(it).index < rs_reads(it).leaf_len \/ rs_reads(it).index = -1

====
